---- MODULE Spec2Model ----
(***************************************************************************)
(* Model of scan-lockfiles.js: the lockfile scanner of sha1-hulud-checker. *)
(*                                                                         *)
(* Text is modelled as a sequence of atoms.  An atom is a literal chunk of *)
(* text: a single punctuation character or a run of word characters.  The *)
(* regular expressions of the source are translated to operators over      *)
(* these sequences, each character class becoming a set of atoms.          *)
(***************************************************************************)
EXTENDS Integers, Sequences, FiniteSets

\* ------------------------------------------------------------------ bounds

MaxEntries == 2
MaxLines == 3
MaxFiles == 2

\* ------------------------------------------------------------ text classes

\* \s of the regular expressions, over the atoms used here.
Space == {" ", "\n"}

\* ['"]
Quotes == {"'", "\""}

\* Runs of \w characters.
WordAtoms == {"a", "b", "s", "1", "2", "version", "specifier", "link", "node_modules"}

\* [\w\-./] of the name pattern (scan-lockfiles.js:146).
NameChars == WordAtoms \cup {"-", ".", "/"}

NoMatch == [matched |-> FALSE]

\* First position at or after i whose atom is outside cls (Len(s)+1 if none):
\* where a greedy  [cls]*  starting at i stops.
Span(s, i, cls) ==
    CHOOSE j \in i..(Len(s) + 1) :
        /\ \A k \in i..(j - 1) : s[k] \in cls
        /\ (j = Len(s) + 1 \/ s[j] \notin cls)

\* Where a greedy  [^excl]*  starting at i stops.
SpanNot(s, i, excl) ==
    CHOOSE j \in i..(Len(s) + 1) :
        /\ \A k \in i..(j - 1) : s[k] \notin excl
        /\ (j = Len(s) + 1 \/ s[j] \in excl)

\* Position after an optional atom of cls at i.
Opt(s, i, cls) == IF i <= Len(s) /\ s[i] \in cls THEN i + 1 ELSE i

At(s, i, c) == i <= Len(s) /\ s[i] = c

\* `${packageName}@${version}` (scan-lockfiles.js:168).
KeyOf(packageName, version) == packageName \o <<"@">> \o version

\* ------------------------------------------------------ regular expressions

\* line.match(/^\s+['"]?(@?[\w\-./]+)['"]?:\s*$/)
pkgMatch(line) ==
    LET p1 == Span(line, 1, Space)
        p2 == Opt(line, p1, Quotes)
        p3 == Opt(line, p2, {"@"})
        p4 == Span(line, p3, NameChars)
        p5 == Opt(line, p4, Quotes)
    IN  IF /\ p1 > 1
           /\ p4 > p3
           /\ At(line, p5, ":")
           /\ Span(line, p5 + 1, Space) = Len(line) + 1
        THEN [matched |-> TRUE, name |-> SubSeq(line, p2, p4 - 1)]
        ELSE NoMatch

\* line.match(/^\s+version:\s*['"]?([^'"(\s]+)/)
versionMatch(line) ==
    LET p1 == Span(line, 1, Space)
        p2 == Span(line, p1 + 2, Space)
        p3 == Opt(line, p2, Quotes)
        p4 == SpanNot(line, p3, Quotes \cup {"("} \cup Space)
    IN  IF /\ p1 > 1
           /\ At(line, p1, "version")
           /\ At(line, p1 + 1, ":")
           /\ p4 > p3
        THEN [matched |-> TRUE, version |-> SubSeq(line, p3, p4 - 1)]
        ELSE NoMatch

\* line.match(/^\s+specifier:/)
specifierMatch(line) ==
    LET p1 == Span(line, 1, Space)
    IN  p1 > 1 /\ At(line, p1, "specifier") /\ At(line, p1 + 1, ":")

\* One attempt of /['"]?(@?[^@'"]+)@([^'":\s]+)['"]?:/ anchored at position p.
packageAtVersionAt(content, p) ==
    LET q1 == Opt(content, p, Quotes)
        q2 == Opt(content, q1, {"@"})
        q3 == SpanNot(content, q2, Quotes \cup {"@"})
        q4 == SpanNot(content, q3 + 1, Quotes \cup {":"} \cup Space)
        q5 == Opt(content, q4, Quotes)
    IN  IF /\ q3 > q2
           /\ At(content, q3, "@")
           /\ q4 > q3 + 1
           /\ At(content, q5, ":")
        THEN [matched |-> TRUE,
              packageName |-> SubSeq(content, q1, q3 - 1),
              version |-> SubSeq(content, q3 + 1, q4 - 1),
              end |-> q5 + 1]
        ELSE NoMatch

\* The successive results of packageAtVersionRegex.exec(content) from
\* lastIndex p on: the leftmost match, then the search resumes at its end.
RECURSIVE packageAtVersionExec(_, _)
packageAtVersionExec(content, p) ==
    IF p > Len(content) THEN <<>>
    ELSE LET m == packageAtVersionAt(content, p)
         IN  IF m.matched
             THEN <<[packageName |-> m.packageName, version |-> m.version]>>
                      \o packageAtVersionExec(content, m.end)
             ELSE packageAtVersionExec(content, p + 1)

\* content.split('\n') read backwards: the text whose lines these are.
RECURSIVE JoinLines(_)
JoinLines(lines) ==
    IF lines = <<>> THEN <<>>
    ELSE IF Len(lines) = 1 THEN lines[1]
    ELSE lines[1] \o <<"\n">> \o JoinLines(Tail(lines))

\* --------------------------------------------------------------- the index

\* The lines of the dataset file after content.trim(): trim removes the blank
\* lines at both ends, so that the first line left is the one skipped as the
\* header (scan-lockfiles.js:26).
RECURSIVE TrimLines(_)
TrimLines(lines) ==
    IF lines = <<>> THEN <<>>
    ELSE IF lines[1].kind = "blank" THEN TrimLines(Tail(lines))
    ELSE IF lines[Len(lines)].kind = "blank"
         THEN TrimLines(SubSeq(lines, 1, Len(lines) - 1))
    ELSE lines

\* The Map built by parseAffectedPackages: package name -> set of versions.
\* Line 1 is skipped whatever it holds; a line counts when it matches
\* /"([^"]+)";"([^"]+)"/ (kind "rec").
parseAffectedPackages(csvLines) ==
    LET lines == TrimLines(csvLines)
        recs == {i \in 2..Len(lines) : lines[i].kind = "rec"}
    IN  [n \in {lines[i].name : i \in recs} |->
            {lines[i].version : i \in {j \in recs : lines[j].name = n}}]

\* affectedPackages.has(n) && affectedPackages.get(n).has(v)
IndexHas(affected, n, v) == n \in DOMAIN affected /\ v \in affected[n]

\* totalAffectedVersions (scan-lockfiles.js:325-328) is only printed.

\* ------------------------------------------------------------- the matcher

\* checkAndAddPackage that reports any version of an indexed name.
checkAndAddPackageAnyVersion(packageName, version, affected, st) ==
    LET key == KeyOf(packageName, version)
    IN  IF key \in st.checked THEN st
        ELSE [checked |-> st.checked \cup {key},
              found |-> IF packageName \in DOMAIN affected
                        THEN Append(st.found,
                                    [packageName |-> packageName, version |-> version])
                        ELSE st.found]

\* checkAndAddPackage without the early return on a key already checked.
checkAndAddPackageNoDedup(packageName, version, affected, st) ==
    LET key == KeyOf(packageName, version)
    IN  [checked |-> st.checked \cup {key},
         found |-> IF packageName \in DOMAIN affected
                      /\ version \in affected[packageName]
                   THEN Append(st.found,
                               [packageName |-> packageName, version |-> version])
                   ELSE st.found]

\* checkAndAddPackage on the pair st = [found, checked] of one file scan.
checkAndAddPackage(packageName, version, affected, st) ==
    LET key == KeyOf(packageName, version)
    IN  IF key \in st.checked THEN st
        ELSE [checked |-> st.checked \cup {key},
              found |-> IF packageName \in DOMAIN affected
                           /\ version \in affected[packageName]
                        THEN Append(st.found,
                                    [packageName |-> packageName, version |-> version])
                        ELSE st.found]

\* ------------------------------------------------------ JSON lockfiles

\* Positions i of s where the text "node_modules/" starts.
NodeModulesAt(s) ==
    {i \in 1..(Len(s) - 1) : s[i] = "node_modules" /\ s[i + 1] = "/"}

Min(S) == CHOOSE x \in S : \A y \in S : x <= y
Max(S) == CHOOSE x \in S : \A y \in S : x >= y

\* The package name Pass A derives from a key of `packages`
\* (scan-lockfiles.js:81-92): the key itself unless /node_modules\/(.+)$/
\* matches; then the text after the match's "node_modules/", cut again after
\* the last "node_modules/" inside it.
packageNameOfKey(key) ==
    LET starts == {i \in NodeModulesAt(key) : i + 2 <= Len(key)}
    IN  IF starts = {} THEN key
        ELSE LET m1 == SubSeq(key, Min(starts) + 2, Len(key))
                 inner == NodeModulesAt(m1)
             IN  IF inner = {} THEN m1
                 ELSE SubSeq(m1, Max(inner) + 2, Len(m1))

\* entryIsCandidate without the skip of an empty package name.
entryIsCandidateNoRootSkip(entry) ==
    /\ entry.hasValue
    /\ entry.version # <<>>

\* Whether Pass A hands the entry to checkAndAddPackage
\* (scan-lockfiles.js:75 and :95).
entryIsCandidate(entry) ==
    /\ entry.hasValue
    /\ entry.version # <<>>
    /\ packageNameOfKey(entry.key) # <<>>

\* The nodes of the `dependencies` tree are kept in a sequence; node i names
\* its parent (0: the top-level object), parent < i, and siblings are in
\* Object.entries order.  The calls of checkAndAddPackage that
\* scanNpmV1Dependencies makes for the object whose members have parent p,
\* in order.
RECURSIVE walkFrom(_, _, _)
walkFrom(tree, p, i) ==
    IF i > Len(tree) THEN <<>>
    ELSE IF tree[i].parent # p THEN walkFrom(tree, p, i + 1)
    ELSE (IF tree[i].version # <<>>
          THEN <<[packageName |-> tree[i].name, version |-> tree[i].version]>>
          ELSE <<>>)
         \o walkFrom(tree, i, i + 1)
         \o walkFrom(tree, p, i + 1)

scanNpmV1Dependencies(tree) == walkFrom(tree, 0, 1)

\* ------------------------------------------------------ text lockfiles

\* currentPackage = null
Null == <<>>

\* scan2Line that keeps currentPackage on a line that is neither a name, a
\* version nor a specifier line.
scan2LineNoOtherReset(line, currentPackage) ==
    LET pm == pkgMatch(line)
        vm == versionMatch(line)
    IN  IF pm.matched
        THEN [currentPackage |-> pm.name, emit |-> FALSE]
        ELSE IF currentPackage # Null /\ vm.matched
        THEN [currentPackage |-> Null, emit |-> TRUE,
              packageName |-> currentPackage, version |-> vm.version]
        ELSE [currentPackage |-> currentPackage, emit |-> FALSE]

\* scan2Line that keeps currentPackage after a version line.
scan2LineNoReset(line, currentPackage) ==
    LET pm == pkgMatch(line)
        vm == versionMatch(line)
    IN  IF pm.matched
        THEN [currentPackage |-> pm.name, emit |-> FALSE]
        ELSE IF currentPackage # Null
        THEN IF vm.matched
             THEN [currentPackage |-> currentPackage, emit |-> TRUE,
                   packageName |-> currentPackage, version |-> vm.version]
             ELSE IF ~specifierMatch(line)
                  THEN [currentPackage |-> Null, emit |-> FALSE]
                  ELSE [currentPackage |-> currentPackage, emit |-> FALSE]
        ELSE [currentPackage |-> currentPackage, emit |-> FALSE]

\* One iteration of the line loop of Method 2 (scan-lockfiles.js:141-164):
\* the new currentPackage and the candidate handed to checkAndAddPackage.
scan2Line(line, currentPackage) ==
    LET pm == pkgMatch(line)
        vm == versionMatch(line)
    IN  IF pm.matched
        THEN [currentPackage |-> pm.name, emit |-> FALSE]
        ELSE IF currentPackage # Null
        THEN IF vm.matched
             THEN [currentPackage |-> Null, emit |-> TRUE,
                   packageName |-> currentPackage, version |-> vm.version]
             ELSE IF ~specifierMatch(line)
                  THEN [currentPackage |-> Null, emit |-> FALSE]
                  ELSE [currentPackage |-> currentPackage, emit |-> FALSE]
        ELSE [currentPackage |-> currentPackage, emit |-> FALSE]

\* ------------------------------------------------------------------ inputs

PkgA == <<"a">>
PkgScoped == <<"@", "s", "/", "a">>
PkgNmScope == <<"@", "node_modules", "/", "a">>
V1 == <<"1">>
V2 == <<"2">>

SeqsUpTo(S, n) == UNION {[1..k -> S] : k \in 0..n}

\* Lines of the dataset file: "rec" matches /"([^"]+)";"([^"]+)"/.
Rec(n, v) == [kind |-> "rec", name |-> n, version |-> v]
Blank == [kind |-> "blank", name |-> <<>>, version |-> <<>>]
Junk == [kind |-> "junk", name |-> <<>>, version |-> <<>>]
HeaderLine == Rec(<<"Packages">>, <<"Version">>)

\* AFFECTED_PACKAGES_FILE as found on disk.
DatasetPool ==
    { [exists |-> FALSE, lines |-> <<>>],
      [exists |-> TRUE, lines |-> <<HeaderLine>>],
      [exists |-> TRUE, lines |-> <<Rec(PkgA, V1)>>],
      [exists |-> TRUE, lines |-> <<HeaderLine, Rec(PkgA, V1)>>],
      [exists |-> TRUE, lines |-> <<Blank, HeaderLine, Rec(PkgScoped, V1), Junk,
                                     Rec(PkgNmScope, V1), Blank>>],
      [exists |-> TRUE, lines |-> <<HeaderLine, Rec(PkgA, V1), Rec(PkgA, V2),
                                     Blank, Rec(PkgScoped, V1)>>] }

\* Members of the `packages` object: hasValue is FALSE for null, version is
\* <<>> when the member has no (or an empty) version.
Entry(k, v) == [key |-> k, hasValue |-> TRUE, version |-> v]
NM(name) == <<"node_modules", "/">> \o name

EntryPool ==
    { Entry(<<>>, V1),
      Entry(NM(PkgA), V1),
      Entry(NM(PkgA), V2),
      Entry(NM(<<"b", "/">> \o NM(PkgA)), V1),
      Entry(NM(PkgScoped), V1),
      Entry(NM(PkgNmScope), V1),
      Entry(PkgA, V1),
      Entry(NM(<<"b">>), <<>>),
      [key |-> NM(<<"s">>), hasValue |-> FALSE, version |-> <<>>] }

\* JSON.parse keeps one member per key.
PackagesPool ==
    {pk \in SeqsUpTo(EntryPool, MaxEntries) :
        \A x, y \in 1..Len(pk) : x # y => pk[x].key # pk[y].key}

Node(n, v, p) == [name |-> n, version |-> v, parent |-> p]

\* `dependencies` trees.
TreePool ==
    { <<>>,
      <<Node(PkgA, V1, 0), Node(PkgScoped, V1, 1), Node(<<"b">>, <<>>, 0),
        Node(PkgA, V1, 3), Node(PkgA, V2, 3)>>,
      <<Node(<<>>, <<"s", "/", "a", "@", "1">>, 0), Node(PkgScoped, V1, 0)>> }

\* Lines of text lockfiles.
LinePool ==
    { <<" ", "'", "a", "'", ":">>,
      <<" ", "@", "s", "/", "a", ":">>,
      <<" ", "specifier", ":", " ", "^", "1">>,
      <<" ", "specifier", ":">>,
      <<" ", "version", ":", " ", "1">>,
      <<" ", "version", ":", " ", "'", "2", "(", "b", ")", "'">>,
      <<" ", "link", ":", " ", "a">>,
      <<"'", "a", "@", "1", "'", ":">>,
      <<" ", "a", "@", "1", ":">> }

LinesPool == SeqsUpTo(LinePool, MaxLines) \ {<<>>}

JsonFile(pk, tree) ==
    [ext |-> "json", readable |-> TRUE, valid |-> TRUE,
     packages |-> pk, dependencies |-> tree, lines |-> <<>>]
TextFile(ls) ==
    [ext |-> "yaml", readable |-> TRUE, valid |-> FALSE,
     packages |-> <<>>, dependencies |-> <<>>, lines |-> ls]
\* A .json file whose content JSON.parse rejects.
BadJson ==
    [ext |-> "json", readable |-> TRUE, valid |-> FALSE,
     packages |-> <<>>, dependencies |-> <<>>, lines |-> <<>>]
\* A path readFileSync throws on (no permission, a directory, removed since).
Unreadable ==
    [ext |-> "yaml", readable |-> FALSE, valid |-> FALSE,
     packages |-> <<>>, dependencies |-> <<>>, lines |-> <<>>]

RichFiles ==
    {JsonFile(pk, t) : pk \in PackagesPool, t \in TreePool}
        \cup {TextFile(ls) : ls \in LinesPool}

SmallFiles ==
    { BadJson, Unreadable,
      JsonFile(<<Entry(NM(PkgA), V1)>>, <<>>),
      JsonFile(<<Entry(NM(PkgA), V2)>>, <<Node(PkgScoped, V1, 0)>>),
      TextFile(<<<<" ", "'", "a", "'", ":">>, <<" ", "version", ":", " ", "1">>>>),
      TextFile(<<<<>>>>) }

\* The command line and the lockfiles it leads to: help is -h/--help,
\* pathArg the kind of path given ("none": no path, "absent": a path that
\* does not exist), disk the lockfiles findLockfilesInProject returns for a
\* directory, or the file named.
RunPool ==
    { [help |-> TRUE, pathArg |-> "none", disk |-> <<>>],
      [help |-> FALSE, pathArg |-> "absent", disk |-> <<>>] }
        \cup {[help |-> FALSE, pathArg |-> "file", disk |-> <<f>>] :
                 f \in RichFiles \cup {BadJson, Unreadable}}
        \cup {[help |-> FALSE, pathArg |-> p, disk |-> d] :
                 p \in {"none", "dir"}, d \in SeqsUpTo(SmallFiles, MaxFiles)}

\* ------------------------------------------------------------------- state

VARIABLES
    env,               \* the command line and the lockfiles on disk
    csv,               \* the dataset file on disk
    pc,                \* where main() is
    affectedPackages,  \* the index: package name -> set of versions
    lockfiles,         \* main's list of lockfiles
    cur,               \* position of the for..of loop in lockfiles
    found,             \* scanLockfile's found
    checked,           \* scanLockfile's checked
    pos,               \* position of the loop of the current pass
    currentPackage,    \* scanYamlLockfile's currentPackage
    totalFound,
    allResults,
    exitCode,          \* the process's exit code, -1 while it runs
    outcome,           \* how the process ended
    summary,           \* the totals of the final report
    calls,             \* the (name, version) pairs handed to checkAndAddPackage in this file
    returned,          \* what scanLockfile returned, per lockfile scanned
    parseErrors        \* the lockfiles whose JSON.parse failure was caught

vars == <<env, csv, pc, affectedPackages, lockfiles, cur, found, checked, pos,
          currentPackage, totalFound, allResults, exitCode, outcome, summary,
          calls, returned, parseErrors>>

scanVars == <<found, checked, pos, currentPackage, calls>>
mainVars == <<affectedPackages, lockfiles, cur, totalFound, allResults, returned,
              parseErrors>>
endVars == <<exitCode, outcome, summary>>

NoSummary == [totalAffectedPackages |-> 0, lockfilesScanned |-> 0, lockfilesWithIssues |-> 0]

Init ==
    /\ env \in RunPool
    /\ csv \in DatasetPool
    /\ pc = "main"
    /\ affectedPackages = <<>>
    /\ lockfiles = <<>>
    /\ cur = 1
    /\ found = <<>>
    /\ checked = {}
    /\ pos = 1
    /\ currentPackage = Null
    /\ totalFound = 0
    /\ allResults = <<>>
    /\ exitCode = -1
    /\ outcome = "running"
    /\ summary = NoSummary
    /\ calls = <<>>
    /\ returned = <<>>
    /\ parseErrors = {}

\* process.exit(code)
Exit(code, how) ==
    /\ pc' = "exited"
    /\ exitCode' = code
    /\ outcome' = how
    /\ UNCHANGED <<env, csv>>

\* An exception nothing catches: node prints it and exits with code 1.
Uncaught ==
    /\ Exit(1, "uncaught")
    /\ UNCHANGED <<summary, scanVars, mainVars>>

\* The state of one file scan after a call of checkAndAddPackage; calls notes
\* the pair, the pass that made the call ("A", "B", "1", "2") and the position
\* of that pass's loop.
Call(packageName, version, by) ==
    LET st == checkAndAddPackage(packageName, version, affectedPackages,
                                 [found |-> found, checked |-> checked])
    IN  /\ found' = st.found
        /\ checked' = st.checked
        /\ calls' = Append(calls, [packageName |-> packageName, version |-> version,
                                 by |-> by, at |-> pos])

\* -------------------------------------------------------------------- main

\* scan-lockfiles.js:309-312
Help ==
    /\ pc = "main"
    /\ env.help
    /\ Exit(0, "help")
    /\ UNCHANGED <<summary, scanVars, mainVars>>

\* scan-lockfiles.js:323: readFileSync throws when the file cannot be read;
\* otherwise whatever parseAffectedPackages builds is the index.
LoadDataset ==
    /\ pc = "main"
    /\ ~env.help
    /\ IF csv.exists
       THEN /\ affectedPackages' = parseAffectedPackages(csv.lines)
            /\ pc' = "getLockfiles"
            /\ UNCHANGED <<env, csv, lockfiles, cur, totalFound, allResults,
                           returned, parseErrors, scanVars, endVars>>
       ELSE Uncaught

\* getLockfiles: the file named, or the lockfiles found under the directory.
getLockfiles(e) == e.disk

\* scan-lockfiles.js:336: statSync throws on a path that does not exist.
GetLockfiles ==
    /\ pc = "getLockfiles"
    /\ IF env.pathArg = "absent"
       THEN Uncaught
       ELSE /\ lockfiles' = getLockfiles(env)
            /\ pc' = "lockfiles"
            /\ UNCHANGED <<env, csv, affectedPackages, cur, totalFound, allResults,
                           returned, parseErrors, scanVars, endVars>>

\* scan-lockfiles.js:338-345
NoLockfiles ==
    /\ pc = "lockfiles"
    /\ Len(lockfiles) = 0
    /\ Exit(1, "noLockfiles")
    /\ UNCHANGED <<summary, scanVars, mainVars>>

\* scan-lockfiles.js:351-352
BeginLoop ==
    /\ pc = "lockfiles"
    /\ Len(lockfiles) # 0
    /\ totalFound' = 0
    /\ allResults' = <<>>
    /\ cur' = 1
    /\ pc' = "loop"
    /\ UNCHANGED <<env, csv, affectedPackages, lockfiles, returned, parseErrors,
                   scanVars, endVars>>

\* scanLockfile up to the choice of the parser (scan-lockfiles.js:51-62).
ScanLockfile ==
    /\ pc = "loop"
    /\ cur <= Len(lockfiles)
    /\ IF lockfiles[cur].readable
       THEN /\ found' = <<>>
            /\ checked' = {}
            /\ calls' = <<>>
            /\ pos' = 1
            /\ currentPackage' = Null
            /\ pc' = IF lockfiles[cur].ext = "json" THEN "jsonParse" ELSE "scan1"
            /\ UNCHANGED <<env, csv, mainVars, endVars>>
       ELSE Uncaught

\* main's handling of what scanLockfile returned (scan-lockfiles.js:361-373).
FileDone ==
    /\ pc = "fileDone"
    /\ returned' = Append(returned, found)
    /\ IF Len(found) > 0
       THEN /\ totalFound' = totalFound + Len(found)
            /\ allResults' = Append(allResults, [lockfile |-> cur, packages |-> found])
       ELSE UNCHANGED <<totalFound, allResults>>
    /\ cur' = cur + 1
    /\ pc' = "loop"
    /\ UNCHANGED <<env, csv, affectedPackages, lockfiles, parseErrors, scanVars,
                   endVars>>

\* exitCodeOf with the comparison off by one.
exitCodeOfOffByOne(total) == IF total > 1 THEN 1 ELSE 0

\* process.exit(totalFound > 0 ? 1 : 0)
exitCodeOf(total) == IF total > 0 THEN 1 ELSE 0

\* scan-lockfiles.js:376-405
Summary ==
    /\ pc = "loop"
    /\ cur > Len(lockfiles)
    /\ summary' = [totalAffectedPackages |-> totalFound,
                   lockfilesScanned |-> Len(lockfiles),
                   lockfilesWithIssues |-> Len(allResults)]
    /\ Exit(exitCodeOf(totalFound), "summary")
    /\ UNCHANGED <<scanVars, mainVars>>

\* ------------------------------------------------------------ scanJsonLockfile

\* JsonParse without the try/catch: the failure of JSON.parse escapes.
JsonParseRethrow ==
    /\ pc = "jsonParse"
    /\ IF lockfiles[cur].valid
       THEN /\ pc' = "passA"
            /\ UNCHANGED <<env, csv, mainVars, scanVars, endVars>>
       ELSE Uncaught

\* JSON.parse inside the try: a failure is caught and logged, and the scan of
\* the file ends with found as it is.
JsonParse ==
    /\ pc = "jsonParse"
    /\ IF lockfiles[cur].valid
       THEN /\ pc' = "passA"
            /\ UNCHANGED parseErrors
       ELSE /\ pc' = "fileDone"
            /\ parseErrors' = parseErrors \cup {cur}
    /\ UNCHANGED <<env, csv, affectedPackages, lockfiles, cur, totalFound,
                   allResults, returned, scanVars, endVars>>

\* One member of lockfile.packages, or the end of the loop over them.
PassA ==
    /\ pc = "passA"
    /\ LET pk == lockfiles[cur].packages
       IN  IF pos <= Len(pk)
           THEN /\ IF entryIsCandidate(pk[pos])
                   THEN Call(packageNameOfKey(pk[pos].key), pk[pos].version, "A")
                   ELSE UNCHANGED <<found, checked, calls>>
                /\ pos' = pos + 1
                /\ pc' = pc
           ELSE /\ pos' = 1
                /\ pc' = "passB"
                /\ UNCHANGED <<found, checked, calls>>
    /\ UNCHANGED <<env, csv, currentPackage, mainVars, endVars>>

\* One call made by scanNpmV1Dependencies, or its return.
PassB ==
    /\ pc = "passB"
    /\ LET cs == scanNpmV1Dependencies(lockfiles[cur].dependencies)
       IN  IF pos <= Len(cs)
           THEN /\ Call(cs[pos].packageName, cs[pos].version, "B")
                /\ pos' = pos + 1
                /\ pc' = pc
           ELSE /\ pos' = 1
                /\ pc' = "fileDone"
                /\ UNCHANGED <<found, checked, calls>>
    /\ UNCHANGED <<env, csv, currentPackage, mainVars, endVars>>

\* ------------------------------------------------------------ scanYamlLockfile

\* One iteration of the while loop of Method 1, or its end.
Scan1 ==
    /\ pc = "scan1"
    /\ LET ms == packageAtVersionExec(JoinLines(lockfiles[cur].lines), 1)
       IN  IF pos <= Len(ms)
           THEN /\ Call(ms[pos].packageName, ms[pos].version, "1")
                /\ pos' = pos + 1
                /\ pc' = pc
           ELSE /\ pos' = 1
                /\ pc' = "scan2"
                /\ UNCHANGED <<found, checked, calls>>
    /\ UNCHANGED <<env, csv, currentPackage, mainVars, endVars>>

\* One iteration of the line loop of Method 2, or its end.
Scan2 ==
    /\ pc = "scan2"
    /\ LET ls == lockfiles[cur].lines
       IN  IF pos <= Len(ls)
           THEN LET r == scan2Line(ls[pos], currentPackage)
                IN  /\ currentPackage' = r.currentPackage
                    /\ IF r.emit
                       THEN Call(r.packageName, r.version, "2")
                       ELSE UNCHANGED <<found, checked, calls>>
                    /\ pos' = pos + 1
                    /\ pc' = pc
           ELSE /\ pos' = 1
                /\ pc' = "fileDone"
                /\ UNCHANGED <<found, checked, calls, currentPackage>>
    /\ UNCHANGED <<env, csv, mainVars, endVars>>

\* --------------------------------------------------------------------- spec

Next ==
    \/ Help
    \/ LoadDataset
    \/ GetLockfiles
    \/ NoLockfiles
    \/ BeginLoop
    \/ ScanLockfile
    \/ JsonParse
    \/ PassA
    \/ PassB
    \/ Scan1
    \/ Scan2
    \/ FileDone
    \/ Summary

Spec == Init /\ [][Next]_vars

\* ------------------------------------------------------------------ claims

Pair(n, v) == [packageName |-> n, version |-> v]
PairOf(c) == Pair(c.packageName, c.version)
Count(seq, x) == Cardinality({i \in 1..Len(seq) : seq[i] = x})

\* The lockfile being scanned, when main is inside scanLockfile or has its
\* result in hand.
InScan == pc \in {"jsonParse", "passA", "passB", "scan1", "scan2", "fileDone"}
File == lockfiles[cur]
\* Pass A has run over all of `packages`.
PassADone ==
    /\ InScan /\ File.ext = "json" /\ File.valid
    /\ pc \in {"passB", "fileDone"}

\* Every match list the program holds: the one being built and those returned.
MatchLists == {found} \cup {returned[i] : i \in 1..Len(returned)}
                      \cup {allResults[i].packages : i \in 1..Len(allResults)}

\* C1: for every (n, v) of the index, a `packages` member `node_modules/n`
\* with version v puts {n, v} in the match list of the file exactly once.
C1_FlatEntryReportedOnce ==
    PassADone =>
        \A k \in 1..Len(File.packages) : \A n \in DOMAIN affectedPackages :
            LET e == File.packages[k]
            IN  (e.key = NM(n) /\ e.hasValue /\ e.version \in affectedPackages[n])
                    => Count(found, Pair(n, e.version)) = 1

\* C2: every entry of every match list is a pair of the index.
C2_Soundness ==
    \A m \in MatchLists : \A i \in 1..Len(m) :
        IndexHas(affectedPackages, m[i].packageName, m[i].version)

\* C2's case: a file scan that reported a pair while it also saw an indexed
\* name with a version outside its set and a name the index does not have.
C2_Witness ==
    /\ pc = "fileDone"
    /\ found # <<>>
    /\ \E i \in 1..Len(calls) :
          /\ calls[i].packageName \in DOMAIN affectedPackages
          /\ calls[i].version \notin affectedPackages[calls[i].packageName]
    /\ \E i \in 1..Len(calls) : calls[i].packageName \notin DOMAIN affectedPackages

\* C3: no match list holds the same name and version twice.
C3_NoDuplicateMatches ==
    \A m \in MatchLists : \A i, j \in 1..Len(m) : m[i] = m[j] => i = j

\* C3's case: an indexed pair seen by Pass A and again by Pass B.
C3_Witness ==
    /\ pc = "fileDone"
    /\ \E i, j \in 1..Len(calls) :
          /\ calls[i].by = "A" /\ calls[j].by = "B"
          /\ PairOf(calls[i]) = PairOf(calls[j])
          /\ IndexHas(affectedPackages, calls[i].packageName, calls[i].version)

\* C4: when a file scan ends, a candidate handed to the matcher is in the
\* match list if and only if the index has it.
C4_MatchIffIndexed ==
    pc = "fileDone" =>
        \A i \in 1..Len(calls) :
            (\E j \in 1..Len(found) : found[j] = PairOf(calls[i]))
                <=> IndexHas(affectedPackages, calls[i].packageName, calls[i].version)

\* Scan 2 is running over the lines of the current file, or has finished.
InScan2 == InScan /\ File.ext = "yaml" /\ pc \in {"scan2", "fileDone"}
\* Scan 2 has processed line q.
Processed(q) == pc = "fileDone" \/ (pc = "scan2" /\ pos > q)
\* The calls Scan 2 made at line q.
Scan2Calls(q) == {i \in 1..Len(calls) : calls[i].by = "2" /\ calls[i].at = q}

\* Line p is a bare-key line, line q a `version: value` line, and the lines
\* between them are `specifier:` lines.
TwoLineForm(p, q) ==
    /\ p < q
    /\ pkgMatch(File.lines[p]).matched
    /\ \A k \in (p + 1)..(q - 1) : specifierMatch(File.lines[k])
    /\ versionMatch(File.lines[q]).matched

\* The same, with `specifier:` lines that have text after the colon (a bare
\* `specifier:` is itself a bare-key line).
TwoLineFormValued(p, q) ==
    /\ TwoLineForm(p, q)
    /\ \A k \in (p + 1)..(q - 1) : ~pkgMatch(File.lines[k]).matched

EmitsExactly(p, q) ==
    /\ Cardinality(Scan2Calls(q)) = 1
    /\ \A i \in Scan2Calls(q) :
          PairOf(calls[i]) = Pair(pkgMatch(File.lines[p]).name,
                                  versionMatch(File.lines[q]).version)

\* C5 as stated: a name line, `specifier:` lines, then a version line make
\* Scan 2 emit exactly the candidate (name, value) and return to Idle, and
\* Scan 2 emits nothing except at the version line of such a form.
C5_TwoLineForm ==
    InScan2 =>
        /\ \A p, q \in 1..Len(File.lines) :
              (TwoLineForm(p, q) /\ Processed(q)) =>
                  /\ EmitsExactly(p, q)
                  /\ (pc = "scan2" /\ pos = q + 1) => currentPackage = Null
        /\ \A i \in 1..Len(calls) :
              calls[i].by = "2" =>
                  \E p \in 1..Len(File.lines) :
                      TwoLineForm(p, calls[i].at) /\ EmitsExactly(p, calls[i].at)

\* C5 amended: the same for `specifier:` lines that carry a value.
C5_TwoLineFormValued ==
    InScan2 =>
        /\ \A p, q \in 1..Len(File.lines) :
              (TwoLineFormValued(p, q) /\ Processed(q)) =>
                  /\ EmitsExactly(p, q)
                  /\ (pc = "scan2" /\ pos = q + 1) => currentPackage = Null
        /\ \A i \in 1..Len(calls) :
              calls[i].by = "2" =>
                  \E p \in 1..Len(File.lines) :
                      TwoLineFormValued(p, calls[i].at) /\ EmitsExactly(p, calls[i].at)

\* C5's case: a name line, a specifier line and a version line have been
\* scanned and the pair they give was reported.
C5_Witness ==
    /\ pc = "fileDone" /\ File.ext = "yaml"
    /\ \E p \in 1..Len(File.lines) :
          /\ p + 2 <= Len(File.lines)
          /\ TwoLineFormValued(p, p + 2)
          /\ \E j \in 1..Len(found) :
                found[j] = Pair(pkgMatch(File.lines[p]).name,
                                versionMatch(File.lines[p + 2]).version)
          /\ \E i \in Scan2Calls(p + 2) : TRUE

\* Pass A is running over `packages`, or has finished.
InPassA == InScan /\ File.ext = "json" /\ File.valid /\ pc \in {"passA", "passB", "fileDone"}
\* Pass A has processed member k.
ProcessedA(k) == PassADone \/ (pc = "passA" /\ pos > k)
CallsA(k) == {i \in 1..Len(calls) : calls[i].by = "A" /\ calls[i].at = k}

\* C6 as stated: Pass A makes no candidate of a key without a
\* `node_modules/` segment.
C6_NoSegmentNoCandidate ==
    InPassA =>
        \A k \in 1..Len(File.packages) :
            NodeModulesAt(File.packages[k].key) = {} => CallsA(k) = {}

\* C6 amended: Pass A makes no candidate of the root key ""; a non-empty key
\* without a `node_modules/` segment is the candidate's name as it stands.
C6_RootSkipped ==
    InPassA =>
        \A k \in 1..Len(File.packages) :
            LET e == File.packages[k]
            IN  /\ e.key = <<>> => CallsA(k) = {}
                /\ (/\ ProcessedA(k)
                    /\ e.key # <<>> /\ NodeModulesAt(e.key) = {}
                    /\ e.hasValue /\ e.version # <<>>)
                      => \E i \in CallsA(k) : PairOf(calls[i]) = Pair(e.key, e.version)

\* C6's case: Pass A has passed a root member whose version is an affected
\* version of some name, and a member keyed by a bare name that was reported.
C6_Witness ==
    /\ PassADone
    /\ \E k \in 1..Len(File.packages) :
          /\ File.packages[k].key = <<>>
          /\ \E n \in DOMAIN affectedPackages :
                File.packages[k].version \in affectedPackages[n]
    /\ \E k \in 1..Len(File.packages) :
          /\ File.packages[k].key # <<>>
          /\ NodeModulesAt(File.packages[k].key) = {}
          /\ \E j \in 1..Len(found) :
                found[j] = Pair(File.packages[k].key, File.packages[k].version)

\* Lockfile i is a .json file that can be read and that JSON.parse rejects.
BadJsonAt(i) ==
    lockfiles[i].ext = "json" /\ lockfiles[i].readable /\ ~lockfiles[i].valid

\* C7: the scan of a .json lockfile that fails to parse returns the empty
\* list and never ends the run; a run that reaches its summary has scanned
\* every lockfile and counts them all.
C7_ParseFailureAbsorbed ==
    /\ \A i \in 1..Len(lockfiles) :
          BadJsonAt(i) =>
              /\ i <= Len(returned) => returned[i] = <<>>
              /\ (InScan /\ cur = i) => (found = <<>> /\ pc \in {"jsonParse", "fileDone"})
              /\ (pc = "fileDone" /\ cur = i) => i \in parseErrors
              /\ ~(outcome = "uncaught" /\ cur = i)
    /\ outcome = "summary" =>
          /\ Len(returned) = Len(lockfiles)
          /\ summary.lockfilesScanned = Len(lockfiles)

\* C7's case: a run reached its summary after a parse failure, and a
\* lockfile after the failed one was scanned and had a match.
C7_Witness ==
    /\ outcome = "summary"
    /\ \E i \in parseErrors :
          i < Len(lockfiles) /\ BadJsonAt(i) /\ returned[i + 1] # <<>>

\* C8: once main has its list of lockfiles, no exception ends the run.
C8_NoPerFileAbort ==
    outcome = "uncaught" => Len(lockfiles) = 0

\* The dataset cannot be read, or gives no record.
DatasetLoadFailure ==
    ~csv.exists \/ DOMAIN parseAffectedPackages(csv.lines) = {}

\* C9: with a dataset that cannot be read or gives no record, no lockfile
\* is scanned and the run does not end with exit code 0.
C9_DatasetFailureFatal ==
    (~env.help /\ DatasetLoadFailure) =>
        /\ ~InScan
        /\ returned = <<>>
        /\ exitCode # 0

\* C10: a run that ends by process.exit after looking for lockfiles exits
\* with 0 exactly when there was a lockfile and no lockfile had a match, and
\* with 1 when a lockfile had a match or there was none to scan.
C10_ExitCode ==
    outcome \in {"summary", "noLockfiles"} =>
        /\ exitCode = 0 <=>
              (Len(lockfiles) >= 1 /\ \A i \in 1..Len(returned) : returned[i] = <<>>)
        /\ (\E i \in 1..Len(returned) : returned[i] # <<>>) => exitCode = 1
        /\ Len(lockfiles) = 0 => exitCode = 1
        /\ outcome = "summary" => Len(returned) = Len(lockfiles)

\* C10's case: a run of two lockfiles ended, the second one with a match.
C10_Witness ==
    /\ outcome = "summary"
    /\ exitCode = 1
    /\ Len(returned) = 2
    /\ returned[1] = <<>>
    /\ returned[2] # <<>>

\* Scan 2 is about to process a line.
AtLine == InScan /\ pc = "scan2" /\ pos <= Len(File.lines)
Line == File.lines[pos]
\* Scan 2 is in AwaitingVersion and the line is neither a `version: value`
\* line nor a `specifier:` line.
AwaitingOther ==
    /\ AtLine
    /\ currentPackage # Null
    /\ ~versionMatch(Line).matched
    /\ ~specifierMatch(Line)
\* In Idle a line that is no name line leaves the scan Idle and emits nothing.
IdleStays ==
    (AtLine /\ currentPackage = Null /\ ~pkgMatch(Line).matched)
        => (currentPackage' = Null /\ calls' = calls)

\* C11 as stated: in AwaitingVersion every line that is neither a version
\* line nor a specifier line returns Scan 2 to Idle, and in Idle nothing is
\* emitted until a name line is matched.
C11_OtherLineResets ==
    [][/\ AwaitingOther => (currentPackage' = Null /\ calls' = calls)
       /\ IdleStays]_vars

\* C11 amended: that holds of the lines that are no bare-key lines; a
\* bare-key line met in AwaitingVersion replaces the pending name and leaves
\* Scan 2 in AwaitingVersion.
C11_OtherLineResetsUnlessName ==
    [][/\ (AwaitingOther /\ ~pkgMatch(Line).matched)
              => (currentPackage' = Null /\ calls' = calls)
       /\ (AwaitingOther /\ pkgMatch(Line).matched)
              => (currentPackage' = pkgMatch(Line).name /\ calls' = calls)
       /\ IdleStays]_vars

\* C11's case: after a name line, a line that is neither a name, a version
\* nor a specifier line, and then a version line that emitted nothing.
C11_Witness ==
    /\ InScan2
    /\ \E p \in 1..Len(File.lines) :
          /\ p + 2 <= Len(File.lines)
          /\ Processed(p + 2)
          /\ pkgMatch(File.lines[p]).matched
          /\ ~pkgMatch(File.lines[p + 1]).matched
          /\ ~versionMatch(File.lines[p + 1]).matched
          /\ ~specifierMatch(File.lines[p + 1])
          /\ versionMatch(File.lines[p + 2]).matched
          /\ Scan2Calls(p + 2) = {}

\* Pass B has run over the whole `dependencies` tree of the current file.
PassBDone == InScan /\ File.ext = "json" /\ File.valid /\ pc = "fileDone"
\* The nodes of the tree that have a `version` field.
Versioned(tree) == {i \in 1..Len(tree) : tree[i].version # <<>>}
\* Pass B handed the candidate of node i, named by the node's own property
\* name, to the matcher.
VisitedB(i) ==
    \E c \in 1..Len(calls) :
        /\ calls[c].by = "B"
        /\ PairOf(calls[c]) = Pair(File.dependencies[i].name, File.dependencies[i].version)
\* Every versioned node of the tree, at every depth and below version-less
\* nodes too, yields its candidate.
PassBVisitsEveryNode ==
    PassBDone => \A i \in Versioned(File.dependencies) : VisitedB(i)

\* C12: Pass B yields the candidate of every node that has a `version`, at
\* every depth and whether or not the node's ancestors have a `version`, and
\* every such (n, v) that the index has is in the match list of the file.
C12_EveryDepthReported ==
    PassBDone =>
        \A i \in Versioned(File.dependencies) :
            LET nd == File.dependencies[i]
            IN  /\ VisitedB(i)
                /\ IndexHas(affectedPackages, nd.name, nd.version)
                       => \E j \in 1..Len(found) : found[j] = Pair(nd.name, nd.version)

\* Scan 1 has run over the whole text of the current file.
Scan1Done == InScan /\ File.ext = "yaml" /\ File.readable /\ pc \in {"scan2", "fileDone"}
Content == JoinLines(File.lines)
\* An entry  'name@version':  "name@version":  or  name@version:  whose
\* first atom is at p: the name is an optional scope marker and name
\* characters, the version runs to the closing quote or colon.
EntryAt(content, p) ==
    LET e1 == Opt(content, p, Quotes)
        e2 == Opt(content, e1, {"@"})
        e3 == Span(content, e2, NameChars)
        e4 == SpanNot(content, e3 + 1, Quotes \cup {":"} \cup Space)
        e5 == Opt(content, e4, Quotes)
    IN  IF /\ p <= Len(content)
           /\ (p = 1 \/ content[p - 1] \in Space)
           /\ e3 > e2
           /\ At(content, e3, "@")
           /\ e4 > e3 + 1
           /\ (e1 > p) = (e5 > e4)
           /\ (e1 > p => content[p] = content[e4])
           /\ At(content, e5, ":")
        THEN [matched |-> TRUE, quoted |-> e1 > p,
              packageName |-> SubSeq(content, e1, e3 - 1),
              version |-> SubSeq(content, e3 + 1, e4 - 1)]
        ELSE NoMatch
\* Scan 1 handed (n, v) to the matcher.
Scan1Yields(n, v) ==
    \E c \in 1..Len(calls) : calls[c].by = "1" /\ PairOf(calls[c]) = Pair(n, v)

\* C13: for every entry  'name@version':  "name@version":  or  name@version:
\* of the text, whatever precedes it, Scan 1 yields the candidate whose name
\* is the entry's name and whose version is the entry's version.
C13_EveryEntryYielded ==
    Scan1Done =>
        \A p \in 1..Len(Content) :
            LET e == EntryAt(Content, p)
            IN  e.matched => Scan1Yields(e.packageName, e.version)

\* The same of the quoted entries alone.
QuotedEntryYielded ==
    Scan1Done =>
        \A p \in 1..Len(Content) :
            LET e == EntryAt(Content, p)
            IN  (e.matched /\ e.quoted) => Scan1Yields(e.packageName, e.version)

====
